---- MODULE Spec2Model ----
(***************************************************************************)
(* Model of the request signing core (src/src/request.rs) and of the       *)
(* authenticated client built on it (src/src/private.rs).                  *)
(*                                                                         *)
(* Conventions.                                                            *)
(*  - A Rust Option<T> / Result<T, E> whose error carries nothing we need  *)
(*    is a set with at most one element: {} is None / Err, {v} is Some(v). *)
(*  - A header value is a text followed by a token, the shape of           *)
(*    format!("Bearer {token}"); a plain string has the empty token.       *)
(*  - The nonce of claims.create_nonce() is 24 random bytes; it is         *)
(*    modelled as a fresh number drawn at every call of token().           *)
(***************************************************************************)
EXTENDS Integers, Sequences, FiniteSets, TLC

VARIABLES
    cur,        \* Option<Builder>: the builder value the caller holds
    calls,      \* number of builder calls made so far (bounded)
    sent,       \* log of build() results: [from |-> builder, req |-> Request]
    crashed,    \* "none", or the place of the panic that unwound the caller
    nonces,     \* number of nonces drawn so far
    client,     \* Option<Private>: the authenticated client
    pc,         \* position of the client operation in progress
    op,         \* the client operation in progress
    page,       \* Option<Builder>: request template of the running stream
    cursor,     \* StreamState.pending_cursor
    exhausted,  \* StreamState.exhausted
    responses,  \* bodies received so far by the running operation
    yielded     \* items yielded by the stream / result of the one-shot call

vars == <<cur, calls, sent, crashed, nonces, client, pc, op, page, cursor,
          exhausted, responses, yielded>>

builderVars == <<cur, calls>>
clientVars == <<client, pc, op, page, cursor, exhausted, responses, yielded>>

----------------------------------------------------------------------------
(* Bounds *)

MaxCalls == 4
MaxBuilds == 2
MaxPages == 3

----------------------------------------------------------------------------
(* Input domains *)

Methods == {"GET", "POST"}
Versions == {"HTTP/1.1", "HTTP/2.0"}
DefaultVersion == "HTTP/1.1"
Bodies == {<<>>, <<1>>}
KeyNames == {"organizations/o/apiKeys/k1", "organizations/o/apiKeys/k2"}

\* secrets: a SEC1 PEM of a P-256 key, a SEC1 PEM of a P-384 key, no PEM
Secrets == {"pem:p256", "pem:p384", "garbage"}

\* header names a caller may pass to header(); "bad key" is not a legal
\* HTTP header name
HeaderKeys == {"Authorization", "authorization", "User-Agent", "Content-Type",
               "X-Trace", "bad key"}
CallerValues == {"caller", "text/plain; charset=utf-8"}

Some(v) == {v}
None == {}
unwrap(o) == CHOOSE v \in o : TRUE

RootUri ==
    [scheme |-> None, host |-> None, path |-> Some("/"), query |-> None]

AccountsUri ==
    [scheme |-> Some("https"), host |-> Some("api.coinbase.com"),
     path |-> Some("/v2/accounts"), query |-> None]

TransactionsUri ==
    [scheme |-> Some("https"), host |-> Some("api.coinbase.com"),
     path |-> Some("/v2/accounts/A/transactions"),
     query |-> Some(<< <<"limit", "100">> >>)]

\* authority-form URI ("api.coinbase.com:443"): a host and no path
AuthorityUri ==
    [scheme |-> None, host |-> Some("api.coinbase.com"), path |-> None,
     query |-> None]

Uris == {RootUri, AccountsUri, TransactionsUri, AuthorityUri}

----------------------------------------------------------------------------
(* http::Uri accessors *)

host(u) == u.host

RECURSIVE QueryString(_)
QueryString(q) ==
    IF q = <<>> THEN ""
    ELSE q[1][1] \o "=" \o q[1][2]
         \o (IF Len(q) = 1 THEN "" ELSE "&" \o QueryString(Tail(q)))

path_and_query(u) ==
    IF u.path = None THEN None
    ELSE Some(unwrap(u.path)
              \o (IF u.query = None THEN ""
                  ELSE "?" \o QueryString(unwrap(u.query))))

----------------------------------------------------------------------------
(* Tokens and header values *)

\* String::default()
EmptyToken ==
    [kid |-> "", iss |-> "", sub |-> "", uri |-> "", exp |-> 0, nonce |-> 0]

Text(s) == [text |-> s, tok |-> EmptyToken]

\* concat!("coinbase-rs/", env!("CARGO_PKG_VERSION"))
USER_AGENT == "coinbase-rs/" \o "CARGO_PKG_VERSION"
CONTENT_TYPE == "text/plain; charset=utf-8"

from_sec1_pem(secret) == IF secret = "pem:p256" THEN Some(secret) ELSE None

\* mutant of token: the signed-URI claim leaves out the method
token_without_method(key_name, secret, m, path, nonce) ==
    IF from_sec1_pem(secret) = None THEN EmptyToken
    ELSE [kid |-> key_name,
          iss |-> "cdp",
          sub |-> key_name,
          uri |-> path,
          exp |-> 120,
          nonce |-> nonce]

token(key_name, secret, m, path, nonce) ==
    IF from_sec1_pem(secret) = None THEN EmptyToken
    ELSE [kid |-> key_name,
          iss |-> "cdp",
          sub |-> key_name,
          uri |-> m \o " " \o path,
          exp |-> 120,
          nonce |-> nonce]

----------------------------------------------------------------------------
(* request::Builder *)

NoHeaders == [k \in {} |-> Text("")]

new ==
    [auth |-> None, method |-> "GET", uri |-> RootUri,
     version |-> DefaultVersion, headers |-> NoHeaders, body |-> <<>>]

new_with_auth(key, secret) ==
    [auth |-> Some(<<key, secret>>), method |-> "GET", uri |-> RootUri,
     version |-> DefaultVersion, headers |-> NoHeaders, body |-> <<>>]

method(b, m) == [b EXCEPT !.method = m]

uri(b, u) == [b EXCEPT !.uri = u]

version(b, v) == [b EXCEPT !.version = v]

\* mutant of header: the map is replaced instead of extended
header_replacing(b, key, value) ==
    [b EXCEPT !.headers = [k \in {key} |-> value]]

\* HashMap::insert
header(b, key, value) ==
    [b EXCEPT !.headers =
        [k \in DOMAIN b.headers \cup {key} |->
            IF k = key THEN value ELSE b.headers[k]]]

body(b, bytes) == [b EXCEPT !.body = bytes]

\* http::HeaderName: names are case-insensitive and kept in lower case
HeaderName(k) ==
    CASE k = "Authorization" -> Some("authorization")
      [] k = "authorization" -> Some("authorization")
      [] k = "User-Agent" -> Some("user-agent")
      [] k = "Content-Type" -> Some("content-type")
      [] k = "X-Trace" -> Some("x-trace")
      [] OTHER -> None

Built(r) == [panic |-> "none", req |-> Some(r)]
Panic(site) == [panic |-> site, req |-> None]

\* the second half of build(): hand the parts to http::request::Builder.
\* The builder's version is not passed on, so the request has the default
\* one. The HeaderMap is kept as the set of its (name, value) entries; an
\* illegal header name makes body(..).unwrap() panic.
assemble(b) ==
    IF \E k \in DOMAIN b.headers : HeaderName(k) = None
    THEN Panic("body")
    ELSE Built([method |-> b.method,
                uri |-> b.uri,
                version |-> DefaultVersion,
                headers |-> {<<unwrap(HeaderName(k)), b.headers[k]>> :
                                k \in DOMAIN b.headers},
                body |-> b.body])

\* mutant of build: the Content-Type header is not injected
build_without_content_type(b, nonce) ==
    IF b.auth # None
    THEN IF host(b.uri) = None THEN Panic("host")
         ELSE IF path_and_query(b.uri) = None THEN Panic("path_and_query")
         ELSE LET key == unwrap(b.auth)[1]
                  secret == unwrap(b.auth)[2]
                  path == unwrap(host(b.uri)) \o unwrap(path_and_query(b.uri))
                  tok == token(key, secret, b.method, path, nonce)
                  bearer == [text |-> "Bearer ", tok |-> tok]
              IN assemble(header(header(b,
                     "User-Agent", Text(USER_AGENT)),
                     "Authorization", bearer))
    ELSE assemble(b)

build(b, nonce) ==
    IF b.auth # None
    THEN IF host(b.uri) = None THEN Panic("host")
         ELSE IF path_and_query(b.uri) = None THEN Panic("path_and_query")
         ELSE LET key == unwrap(b.auth)[1]
                  secret == unwrap(b.auth)[2]
                  path == unwrap(host(b.uri)) \o unwrap(path_and_query(b.uri))
                  tok == token(key, secret, b.method, path, nonce)
                  bearer == [text |-> "Bearer ", tok |-> tok]
              IN assemble(header(header(header(b,
                     "User-Agent", Text(USER_AGENT)),
                     "Content-Type", Text(CONTENT_TYPE)),
                     "Authorization", bearer))
    ELSE assemble(b)

----------------------------------------------------------------------------
(* The caller of the builder API *)

BuilderInit ==
    /\ cur = None
    /\ calls = 0
    /\ sent = <<>>
    /\ crashed = "none"
    /\ nonces = 0

ClientIdle ==
    /\ client = None
    /\ pc = "idle"
    /\ op = "none"
    /\ page = None
    /\ cursor = None
    /\ exhausted = FALSE
    /\ responses = <<>>
    /\ yielded = <<>>

Init == BuilderInit /\ ClientIdle

CanCall == crashed = "none" /\ calls < MaxCalls

New ==
    /\ CanCall
    /\ cur' = Some(new)
    /\ calls' = calls + 1
    /\ UNCHANGED <<sent, crashed, nonces>>
    /\ UNCHANGED clientVars

NewWithAuth ==
    /\ CanCall
    /\ \E key \in KeyNames, secret \in Secrets :
          cur' = Some(new_with_auth(key, secret))
    /\ calls' = calls + 1
    /\ UNCHANGED <<sent, crashed, nonces>>
    /\ UNCHANGED clientVars

Set(b) ==
    /\ cur' = Some(b)
    /\ calls' = calls + 1
    /\ UNCHANGED <<sent, crashed, nonces>>
    /\ UNCHANGED clientVars

SetMethod ==
    /\ CanCall /\ cur # None
    /\ \E m \in Methods : Set(method(unwrap(cur), m))

SetUri ==
    /\ CanCall /\ cur # None
    /\ \E u \in Uris : Set(uri(unwrap(cur), u))

SetVersion ==
    /\ CanCall /\ cur # None
    /\ \E v \in Versions : Set(version(unwrap(cur), v))

SetHeader ==
    /\ CanCall /\ cur # None
    /\ \E k \in HeaderKeys, v \in CallerValues :
          Set(header(unwrap(cur), k, Text(v)))

SetBody ==
    /\ CanCall /\ cur # None
    /\ \E bytes \in Bodies : Set(body(unwrap(cur), bytes))

\* the effect of one build() on the log, the panic flag and the nonce source
DoBuild(b) ==
    LET r == build(b, nonces + 1)
        drawn == /\ b.auth # None
                 /\ host(b.uri) # None
                 /\ path_and_query(b.uri) # None
                 /\ from_sec1_pem(unwrap(b.auth)[2]) # None
    IN /\ nonces' = IF drawn THEN nonces + 1 ELSE nonces
       /\ crashed' = r.panic
       /\ sent' = IF r.req = None THEN sent
                  ELSE Append(sent, [from |-> b, req |-> unwrap(r.req)])

\* builder.build(): consumes the builder
Build ==
    /\ crashed = "none" /\ cur # None /\ Len(sent) < MaxBuilds
    /\ DoBuild(unwrap(cur))
    /\ cur' = None
    /\ UNCHANGED <<calls>>
    /\ UNCHANGED clientVars

\* builder.clone().build(): the caller keeps the builder
CloneBuild ==
    /\ crashed = "none" /\ cur # None /\ Len(sent) < MaxBuilds
    /\ DoBuild(unwrap(cur))
    /\ UNCHANGED <<cur, calls>>
    /\ UNCHANGED clientVars

Next ==
    \/ New
    \/ NewWithAuth
    \/ SetMethod
    \/ SetUri
    \/ SetVersion
    \/ SetHeader
    \/ SetBody
    \/ Build
    \/ CloneBuild

Spec == Init /\ [][Next]_vars

----------------------------------------------------------------------------
(* Properties of the builder *)

InjectedKeys == {"Authorization", "User-Agent", "Content-Type"}
InjectedNames == {"authorization", "user-agent", "content-type"}

Names(req) == {h[1] : h \in req.headers}

\* the tokens a built request carries as bearer credential
Bearers(req) ==
    {h[2].tok : h \in {x \in req.headers :
                          x[1] = "authorization" /\ x[2].text = "Bearer "}}

Entries == {sent[i] : i \in 1..Len(sent)}
Signed == {e \in Entries : e.from.auth # None}
Unsigned == {e \in Entries : e.from.auth = None}

\* C1: a request built by an authenticated builder (whose URI has a host)
\* has the headers Authorization, User-Agent and Content-Type; a request
\* built by an unauthenticated builder has one of these three only if the
\* caller set a header of that name through header().
C1_BuildHeaders ==
    /\ \A e \in Signed :
          host(e.from.uri) # None => InjectedNames \subseteq Names(e.req)
    /\ \A e \in Unsigned :
          \A n \in InjectedNames \cap Names(e.req) :
              \E k \in DOMAIN e.from.headers : HeaderName(k) = Some(n)

C1_Witness ==
    /\ \E e \in Signed : host(e.from.uri) # None /\ DOMAIN e.from.headers = {}
    /\ \E e \in Unsigned : Names(e.req) \cap InjectedNames = {}

\* C2 (as claimed): every header pair the caller set on an authenticated
\* builder, also one whose key is Authorization, User-Agent or Content-Type,
\* is present with the caller's value in the built request.
C2_CallerHeadersKept ==
    \A e \in Signed :
        \A k \in DOMAIN e.from.headers :
            <<unwrap(HeaderName(k)), e.from.headers[k]>> \in e.req.headers

\* the values build() inserts under one of its three keys
InjectedValues(e, k) ==
    CASE k = "User-Agent" -> {Text(USER_AGENT)}
      [] k = "Content-Type" -> {Text(CONTENT_TYPE)}
      [] k = "Authorization" ->
            {[text |-> "Bearer ", tok |-> t] : t \in Bearers(e.req)}

\* C2 (amended): on an authenticated builder, a caller-set header whose key
\* is not exactly "Authorization", "User-Agent" or "Content-Type" is present
\* with the caller's value in the built request (under its lower-case name);
\* a caller-set header with exactly one of these three keys is replaced: the
\* request has the caller's value under that name only if it equals the
\* injected value or another caller key of the same name carries it.
C2_OtherHeadersKept ==
    \A e \in Signed :
        /\ \A k \in DOMAIN e.from.headers \ InjectedKeys :
              <<unwrap(HeaderName(k)), e.from.headers[k]>> \in e.req.headers
        /\ \A k \in DOMAIN e.from.headers \cap InjectedKeys :
              <<unwrap(HeaderName(k)), e.from.headers[k]>> \in e.req.headers
              => \/ e.from.headers[k] \in InjectedValues(e, k)
                 \/ \E k2 \in DOMAIN e.from.headers \ InjectedKeys :
                       /\ HeaderName(k2) = HeaderName(k)
                       /\ e.from.headers[k2] = e.from.headers[k]

C2_Witness ==
    \E e \in Signed :
        /\ "Authorization" \in DOMAIN e.from.headers
        /\ "X-Trace" \in DOMAIN e.from.headers
        /\ <<"x-trace", Text("caller")>> \in e.req.headers
        /\ <<"authorization", Text("caller")>> \notin e.req.headers

\* C3: with a valid key, the token in the Authorization header of a built
\* request has the builder's key name as key-id and the signed-URI claim
\* "<METHOD> <host><path>[?query]" of the method and URI of the request
\* that carries it.
C3_TokenBindsRequest ==
    \A e \in Signed :
        from_sec1_pem(unwrap(e.from.auth)[2]) # None =>
            /\ Bearers(e.req) # {}
            /\ \A t \in Bearers(e.req) :
                  /\ t.kid = unwrap(e.from.auth)[1]
                  /\ t.uri = e.req.method \o " " \o unwrap(e.req.uri.host)
                                \o unwrap(e.req.uri.path)
                                \o (IF e.req.uri.query = None THEN ""
                                    ELSE "?" \o QueryString(unwrap(e.req.uri.query)))

C3_Witness ==
    \E e \in Signed :
        /\ e.req.method = "POST"
        /\ e.req.uri = TransactionsUri
        /\ \E t \in Bearers(e.req) :
              t.uri = "POST api.coinbase.com/v2/accounts/A/transactions?limit=100"

\* C4: no request carrying an empty bearer token ("Authorization: Bearer ")
\* is built by an authenticated builder: a key or signing failure is
\* reported as an error instead.
C4_NoEmptyBearer ==
    \A e \in Signed : EmptyToken \notin Bearers(e.req)

\* C5: build() on an authenticated builder whose URI has no host does not
\* panic.
C5_MissingHostNoPanic == crashed # "host"

\* C6: any two requests built by authenticated builders carry tokens with
\* different nonces.
C6_NoncesDiffer ==
    \A i, j \in 1..Len(sent) :
        (i # j /\ sent[i].from.auth # None /\ sent[j].from.auth # None) =>
            \A t1 \in Bearers(sent[i].req), t2 \in Bearers(sent[j].req) :
                t1.nonce # t2.nonce

----------------------------------------------------------------------------
(* The authenticated client: src/src/private.rs *)

\* crate::MAIN_URL, "https://api.coinbase.com"
MAIN_URL == [scheme |-> Some("https"), host |-> Some("api.coinbase.com")]

\* a base without scheme and host: Private::new("", key, secret)
EmptyBase == [scheme |-> None, host |-> None]

BaseUris == {MAIN_URL, EmptyBase}
ClientSecrets == {"pem:p256", "garbage"}
AccountIds == {"A"}
Amounts == {"1.00"}

\* (base + path).parse::<Uri>(), where t is an expanded UriTemplate
parse(base, t) ==
    [scheme |-> base.scheme, host |-> base.host, path |-> Some(t.path),
     query |-> t.query]

Private(base, key, secret) == [base |-> base, key |-> key, secret |-> secret]

request(p, t) == uri(new_with_auth(p.key, p.secret), parse(p.base, t))

\* the builder each operation hands to get_stream / builds itself
accounts(p) == request(p, [path |-> "/v2/accounts", query |-> None])

transactions(p, account_id) ==
    request(p, [path |-> "/v2/accounts/" \o account_id \o "/transactions",
                query |-> Some(<< <<"limit", "100">> >>)])

list_addresses(p, account_id) ==
    request(p, [path |-> "/v2/accounts/" \o account_id \o "/addresses",
                query |-> None])

list_payment_methods(p) ==
    request(p, [path |-> "/api/v3/brokerage/payment_methods", query |-> None])

\* serde_json::to_vec(&Withdrawal { .., commit: true })
Withdrawal(amount, currency, payment_method) ==
    <<"amount", amount, "currency", currency,
      "payment_method", payment_method, "commit", "true">>

withdrawals(p, account_id, amount, currency, payment_method) ==
    body(method(request(p, [path |-> "/v2/accounts/" \o account_id
                                        \o "/withdrawals",
                            query |-> None]),
                "POST"),
         Withdrawal(amount, currency, payment_method))

----------------------------------------------------------------------------
(* Response bodies and their decoding *)

\* A body is described by the JSON it holds:
\*   "data"       the success shape (items, and for a page the cursor)
\*   "error"      the error envelope of the API
\*   "both"       an object with the fields of both shapes
\*   "other"      well-formed JSON of neither shape
\*   "truncated"  malformed JSON
DataBody(items, next) ==
    [json |-> "data", items |-> items, next |-> next, error |-> ""]
ErrorBody ==
    [json |-> "error", items |-> <<>>, next |-> None, error |-> "not_found"]
BothBody ==
    [json |-> "both", items |-> <<"A">>, next |-> None, error |-> "not_found"]
OtherBody ==
    [json |-> "other", items |-> <<>>, next |-> None, error |-> ""]
TruncatedBody ==
    [json |-> "truncated", items |-> <<>>, next |-> None, error |-> ""]

ItemLists == {<<"A", "B">>, <<"C">>}
Cursors == {"X", "Y"}

PageBodies ==
    {DataBody(items, next) :
        items \in ItemLists, next \in {None} \cup {Some(c) : c \in Cursors}}
    \cup {ErrorBody, BothBody, OtherBody, TruncatedBody}

CallBodies ==
    {DataBody(items, None) : items \in ItemLists}
    \cup {ErrorBody, BothBody, OtherBody, TruncatedBody}

\* serde_json::from_slice::<shape>(body); shape is "success" or "error"
from_slice(shape, bd) ==
    IF bd.json = "truncated"
    THEN [ok |-> FALSE, err |-> "EOF while parsing an object"]
    ELSE IF \/ bd.json = "both"
            \/ shape = "success" /\ bd.json = "data"
            \/ shape = "error" /\ bd.json = "error"
    THEN [ok |-> TRUE, err |-> ""]
    ELSE [ok |-> FALSE, err |-> "missing field of the " \o shape \o " shape"]

Ok(items) == [tag |-> "Ok", items |-> items, detail |-> ""]
Err(tag, detail) == [tag |-> tag, items |-> <<>>, detail |-> detail]

list_payment_methods_decode(bd) ==
    IF from_slice("success", bd).ok THEN Ok(bd.items)
    ELSE IF from_slice("error", bd).ok THEN Err("Coinbase", bd.error)
    ELSE Err("Serde", from_slice("success", bd).err)

\* mutant of withdrawals_decode: the error of the second attempt is reported
withdrawals_decode_second_error(bd) ==
    IF from_slice("success", bd).ok THEN Ok(bd.items)
    ELSE IF from_slice("error", bd).ok THEN Err("Coinbase", bd.error)
    ELSE Err("Serde", from_slice("error", bd).err)

withdrawals_decode(bd) ==
    IF from_slice("success", bd).ok THEN Ok(bd.items)
    ELSE IF from_slice("error", bd).ok THEN Err("Coinbase", bd.error)
    ELSE Err("Serde", from_slice("success", bd).err)

----------------------------------------------------------------------------
(* The pagination stream *)

with_cursor(u, c) ==
    [u EXCEPT !.query =
        Some((IF u.query = None THEN <<>> ELSE unwrap(u.query))
             \o << <<"starting_after", c>> >>)]

\* the builder of the next page request
page_request(b, pending) ==
    IF pending = None THEN b ELSE uri(b, with_cursor(b.uri, unwrap(pending)))

\* mutant of page_decode: a page without next cursor does not end the stream
page_decode_no_end(bd, pending) ==
    IF from_slice("success", bd).ok
    THEN [item |-> Ok(bd.items), cursor |-> bd.next, exhausted |-> FALSE]
    ELSE IF from_slice("error", bd).ok
    THEN [item |-> Err("Coinbase", bd.error), cursor |-> pending,
          exhausted |-> TRUE]
    ELSE [item |-> Err("Serde", from_slice("success", bd).err),
          cursor |-> pending, exhausted |-> TRUE]

\* mutant of page_decode: an error envelope does not end the stream
page_decode_error_continues(bd, pending) ==
    IF from_slice("success", bd).ok
    THEN [item |-> Ok(bd.items), cursor |-> bd.next,
          exhausted |-> bd.next = None]
    ELSE IF from_slice("error", bd).ok
    THEN [item |-> Err("Coinbase", bd.error), cursor |-> pending,
          exhausted |-> FALSE]
    ELSE [item |-> Err("Serde", from_slice("success", bd).err),
          cursor |-> pending, exhausted |-> TRUE]

\* what one page body does to the stream: the item yielded and the new
\* StreamState
page_decode(bd, pending) ==
    IF from_slice("success", bd).ok
    THEN [item |-> Ok(bd.items), cursor |-> bd.next,
          exhausted |-> bd.next = None]
    ELSE IF from_slice("error", bd).ok
    THEN [item |-> Err("Coinbase", bd.error), cursor |-> pending,
          exhausted |-> TRUE]
    ELSE [item |-> Err("Serde", from_slice("success", bd).err),
          cursor |-> pending, exhausted |-> TRUE]

----------------------------------------------------------------------------
(* Operations of the client *)

StreamOps == {"accounts", "transactions", "list_addresses"}
CallOps == {"list_payment_methods", "withdrawals"}

ClientInit ==
    /\ cur = None
    /\ calls = 0
    /\ sent = <<>>
    /\ crashed = "none"
    /\ nonces = 0
    /\ ClientIdle

Connect ==
    /\ client = None
    /\ \E base \in BaseUris, key \in {"organizations/o/apiKeys/k1"},
          secret \in ClientSecrets :
          client' = Some(Private(base, key, secret))
    /\ UNCHANGED <<pc, op, page, cursor, exhausted, responses, yielded>>
    /\ UNCHANGED <<sent, crashed, nonces>>
    /\ UNCHANGED builderVars

StartStream(name, b) ==
    /\ op' = name
    /\ page' = Some(b)
    /\ cursor' = None
    /\ exhausted' = FALSE
    /\ pc' = "ready"
    /\ UNCHANGED <<client, responses, yielded>>
    /\ UNCHANGED <<sent, crashed, nonces>>
    /\ UNCHANGED builderVars

CanStart == client # None /\ pc = "idle" /\ crashed = "none"

Accounts ==
    /\ CanStart
    /\ StartStream("accounts", accounts(unwrap(client)))

Transactions ==
    /\ CanStart
    /\ \E a \in AccountIds :
          StartStream("transactions", transactions(unwrap(client), a))

ListAddresses ==
    /\ CanStart
    /\ \E a \in AccountIds :
          StartStream("list_addresses", list_addresses(unwrap(client), a))

\* the consumer pulls the next element: the stream builds and issues the
\* request of the next page
Poll ==
    /\ pc = "ready" /\ crashed = "none"
    /\ ~exhausted
    /\ Len(sent) < MaxPages
    /\ DoBuild(page_request(unwrap(page), cursor))
    /\ pc' = "awaiting"
    /\ UNCHANGED <<client, op, page, cursor, exhausted, responses, yielded>>
    /\ UNCHANGED builderVars

\* the consumer pulls the next element of an exhausted stream: it ends
StreamEnd ==
    /\ pc = "ready" /\ crashed = "none"
    /\ exhausted
    /\ pc' = "done"
    /\ UNCHANGED <<client, op, page, cursor, exhausted, responses, yielded>>
    /\ UNCHANGED <<sent, crashed, nonces>>
    /\ UNCHANGED builderVars

\* the response body of the page request arrives
Receive ==
    /\ pc = "awaiting" /\ crashed = "none"
    /\ \E bd \in PageBodies :
          LET r == page_decode(bd, cursor)
          IN /\ responses' = Append(responses, bd)
             /\ yielded' = Append(yielded, r.item)
             /\ cursor' = r.cursor
             /\ exhausted' = r.exhausted
    /\ pc' = "ready"
    /\ UNCHANGED <<client, op, page>>
    /\ UNCHANGED <<sent, crashed, nonces>>
    /\ UNCHANGED builderVars

StartCall(name, b) ==
    /\ op' = name
    /\ DoBuild(b)
    /\ pc' = "call"
    /\ UNCHANGED <<client, page, cursor, exhausted, responses, yielded>>
    /\ UNCHANGED builderVars

ListPaymentMethods ==
    /\ CanStart
    /\ StartCall("list_payment_methods", list_payment_methods(unwrap(client)))

Withdrawals ==
    /\ CanStart
    /\ \E a \in AccountIds, amount \in Amounts :
          StartCall("withdrawals",
                    withdrawals(unwrap(client), a, amount, "USD", "pm-1"))

\* request_future.await? or to_bytes(..).await? fails
CallFails ==
    /\ pc = "call" /\ crashed = "none"
    /\ yielded' = <<Err("Transport", "hyper::Error")>>
    /\ pc' = "done"
    /\ UNCHANGED <<client, op, page, cursor, exhausted, responses>>
    /\ UNCHANGED <<sent, crashed, nonces>>
    /\ UNCHANGED builderVars

CallReturns ==
    /\ pc = "call" /\ crashed = "none"
    /\ \E bd \in CallBodies :
          /\ responses' = <<bd>>
          /\ yielded' = IF op = "list_payment_methods"
                        THEN <<list_payment_methods_decode(bd)>>
                        ELSE <<withdrawals_decode(bd)>>
    /\ pc' = "done"
    /\ UNCHANGED <<client, op, page, cursor, exhausted>>
    /\ UNCHANGED <<sent, crashed, nonces>>
    /\ UNCHANGED builderVars

NextClient ==
    \/ Connect
    \/ Accounts
    \/ Transactions
    \/ ListAddresses
    \/ Poll
    \/ StreamEnd
    \/ Receive
    \/ ListPaymentMethods
    \/ Withdrawals
    \/ CallFails
    \/ CallReturns

SpecClient == ClientInit /\ [][NextClient]_vars

----------------------------------------------------------------------------
(* Properties of the client *)

Received == Len(responses)

Param(u, name) ==
    IF u.query = None THEN None
    ELSE {unwrap(u.query)[i][2] :
            i \in {j \in 1..Len(unwrap(u.query)) : unwrap(u.query)[j][1] = name}}

\* C7: when all N page bodies received so far decode as success envelopes
\* and only the last has no next cursor, the stream has yielded exactly the
\* N pages as Ok elements in the order received, is exhausted, and has
\* issued exactly N page requests.
C7_PagesYielded ==
    ( /\ op \in StreamOps
      /\ Received >= 1
      /\ \A i \in 1..Received : from_slice("success", responses[i]).ok
      /\ \A i \in 1..(Received - 1) : responses[i].next # None
      /\ responses[Received].next = None )
    => /\ Len(yielded) = Received
       /\ \A i \in 1..Received : yielded[i] = Ok(responses[i].items)
       /\ exhausted
       /\ Len(sent) = Received
       /\ pc \in {"ready", "done"}

C7_Witness ==
    /\ op \in StreamOps
    /\ pc = "done"
    /\ responses = <<DataBody(<<"A", "B">>, Some("X")), DataBody(<<"C">>, None)>>
    /\ yielded = <<Ok(<<"A", "B">>), Ok(<<"C">>)>>
    /\ Len(sent) = 2

Errs == {i \in 1..Len(yielded) : yielded[i].tag # "Ok"}

\* C8: when the stream decodes a page body as an error envelope (the body
\* did not decode as a success envelope, which is tried first, and decodes
\* as an error envelope), it yields one Err(RemoteError) for it, the only
\* error it yields, is exhausted and issues no further page request,
\* whatever cursor was pending.
C8_ErrorBranchEnds ==
    \A i \in 1..Received :
        ( /\ op \in StreamOps
          /\ ~from_slice("success", responses[i]).ok
          /\ from_slice("error", responses[i]).ok )
        => /\ i = Received
           /\ Len(yielded) = Received
           /\ yielded[Received] = Err("Coinbase", responses[Received].error)
           /\ Errs = {Received}
           /\ exhausted
           /\ Len(sent) = Received
           /\ pc \in {"ready", "done"}

C8_Witness ==
    /\ op \in StreamOps
    /\ pc = "done"
    /\ Received = 2
    /\ responses[2] = ErrorBody
    /\ cursor = Some("X")
    /\ yielded[2] = Err("Coinbase", "not_found")

\* C9: list_payment_methods and withdrawals return Ok for a body of the
\* success shape, otherwise the remote error (CBError::Coinbase) for a body
\* of the error shape, otherwise CBError::Serde with the decode error of
\* the first (success-shape) attempt, not of the second.
C9_DecodeOrder ==
    (op \in CallOps /\ pc = "done" /\ responses # <<>>) =>
        LET bd == responses[1]
            res == yielded[1]
        IN /\ bd.json \in {"data", "both"} => res = Ok(bd.items)
           /\ bd.json = "error" => res.tag = "Coinbase"
           /\ bd.json \in {"other", "truncated"} =>
                 /\ res.tag = "Serde"
                 /\ res.detail = from_slice("success", bd).err
           /\ bd.json = "other" => res.detail # from_slice("error", bd).err

C9_Witness ==
    /\ op = "withdrawals"
    /\ pc = "done"
    /\ responses = <<OtherBody>>
    /\ yielded = <<Err("Serde", "missing field of the success shape")>>

\* C10: every page request of a pagination stream has a URI with a limit
\* parameter, and every page request after the first has a starting_after
\* parameter equal to the next_starting_after of the previous page.
C10_PageUris ==
    op \in StreamOps =>
        \A i \in 1..Len(sent) :
            /\ Param(sent[i].req.uri, "limit") # None
            /\ i > 1 =>
                  Param(sent[i].req.uri, "starting_after") = responses[i - 1].next

====
